---------------------------- MODULE Spec2Model ----------------------------
(***************************************************************************)
(* Model of the conversation-termination heuristic (ConversationAnalyzer,  *)
(* src/selfplay/conversation_analyzer.py) and of the bot-to-bot            *)
(* interaction loop (Chatbot.chat / Chatbot.interact,                      *)
(* src/selfplay/chatbot.py).                                               *)
(*                                                                         *)
(* Messages are TLA+ strings; lower-casing, substring search, whitespace   *)
(* splitting, punctuation removal and n-gram extraction are computed on    *)
(* the characters.  The regular expressions of the source are finite       *)
(* alternations of literals and are modelled by the set of literals they   *)
(* match.  Python floats are modelled by exact rationals <<n, d>>.         *)
(***************************************************************************)
EXTENDS Integers, Sequences, FiniteSets, TLC

(***************************************************************************)
(* Exact rationals <<n, d>>, d > 0, in lowest terms.                       *)
(***************************************************************************)
RECURSIVE GCD(_, _)
GCD(a, b) == IF b = 0 THEN a ELSE GCD(b, a % b)

Abs(n) == IF n < 0 THEN -n ELSE n

Q(n, d) ==
    LET g == GCD(Abs(n), d)
    IN  IF n = 0 THEN <<0, 1>> ELSE <<n \div g, d \div g>>

QAdd(x, y) == Q(x[1] * y[2] + y[1] * x[2], x[2] * y[2])
QSub(x, y) == Q(x[1] * y[2] - y[1] * x[2], x[2] * y[2])
QMul(x, y) == Q(x[1] * y[1], x[2] * y[2])
QLe(x, y)  == x[1] * y[2] <= y[1] * x[2]
QLt(x, y)  == x[1] * y[2] < y[1] * x[2]
QMin(x, y) == IF QLe(x, y) THEN x ELSE y

Zero == <<0, 1>>
One  == <<1, 1>>

RECURSIVE QSum(_)
QSum(s) == IF s = <<>> THEN Zero ELSE QAdd(Head(s), QSum(Tail(s)))

(***************************************************************************)
(* Python string operations.                                               *)
(***************************************************************************)
UpperCase == "ABCDEFGHIJKLMNOPQRSTUVWXYZ"
LowerCase == "abcdefghijklmnopqrstuvwxyz"
\* string.punctuation, less the backquote, which a TLA+ string cannot hold
\* (no message of the model contains one)
Punctuation == "!\"#$%&'()*+,-./:;<=>?@[\\]^_{|}~"
Whitespace == " \t\n\r"

Char(s, i) == SubSeq(s, i, i)

\* sub in s
Contains(s, sub) ==
    \E i \in 1..(Len(s) - Len(sub) + 1) : SubSeq(s, i, i + Len(sub) - 1) = sub

\* s.startswith(prefix)
StartsWith(s, prefix) ==
    Len(s) >= Len(prefix) /\ SubSeq(s, 1, Len(prefix)) = prefix

LowerChar(c) ==
    IF Contains(UpperCase, c)
    THEN LET i == CHOOSE k \in 1..Len(UpperCase) : Char(UpperCase, k) = c
         IN  Char(LowerCase, i)
    ELSE c

\* str.lower()
RECURSIVE lower(_)
lower(s) ==
    IF s = "" THEN "" ELSE LowerChar(Char(s, 1)) \o lower(Tail(s))

\* text.translate(str.maketrans('', '', string.punctuation))
RECURSIVE RemovePunctuation(_)
RemovePunctuation(s) ==
    IF s = "" THEN ""
    ELSE IF Contains(Punctuation, Char(s, 1)) THEN RemovePunctuation(Tail(s))
         ELSE Char(s, 1) \o RemovePunctuation(Tail(s))

\* str.split(): the maximal runs of non-whitespace characters, in order.
\* cur is the word being read, or "" between words.
RECURSIVE SplitFrom(_, _)
SplitFrom(s, cur) ==
    IF s = "" THEN (IF cur = "" THEN <<>> ELSE <<cur>>)
    ELSE IF Contains(Whitespace, Char(s, 1))
         THEN (IF cur = "" THEN <<>> ELSE <<cur>>) \o SplitFrom(Tail(s), "")
         ELSE SplitFrom(Tail(s), cur \o Char(s, 1))

split(s) == SplitFrom(s, "")

\* ' '.join(words)
RECURSIVE join(_)
join(words) ==
    IF words = <<>> THEN ""
    ELSE IF Len(words) = 1 THEN words[1]
         ELSE words[1] \o " " \o join(Tail(words))

\* the literals matched by the regular expression (a) (b)
Cat(A, B) == { a \o " " \o b : a \in A, b \in B }

\* re.search(alternation of literals, s)
Search(literals, s) == \E l \in literals : Contains(s, l)


(***************************************************************************)
(* Bounds and the messages the agents of the model can produce.            *)
(***************************************************************************)
MaxLen == 4     \* longest transcript handed to the analyzer on its own
MaxTurn == 3    \* largest current_turn handed to the analyzer on its own
MaxTurns == 3   \* largest num_turns / max_turns handed to interact

Start == "Hi"
Neutral == "well ok then"
Neutral2 == "well  ok then"
Neutral3 == " well ok then"
Neutral4 == "well ok then "
Goodbye == "Thank you so much, goodbye!"
Conclusion == "As requested, this conversation has reached its conclusion. Goodbye!"
Strange == "What a strange situation"
Question == "Thank you so much, goodbye! Anything else?"
ProviderErrors == {"timeout"}

\* chatbot.py:121, the string chat returns when generation raises e
ErrorString(e) == "An error occurred: " \o e

\* the responses a transcript handed to the analyzer on its own is made of
Messages == {"", Neutral, Neutral2, Neutral3, Neutral4, Goodbye, Conclusion,
             Strange, Question}
\* the texts the providers of the two bots can generate under interact
Responses == {Neutral, Conclusion}
AllMessages == Messages \cup Responses \cup {Start}
                 \cup { ErrorString(e) : e \in ProviderErrors }

(***************************************************************************)
(* ConversationAnalyzer                                                    *)
(***************************************************************************)
DefaultThreshold == Q(6, 10)
\* the thresholds the analyzers of the model are constructed with
Thresholds == { DefaultThreshold, Q(1, 4) }

\* ConversationAnalyzer.__init__: the end_threshold the analyzer keeps
ConversationAnalyzerInit(threshold) == threshold

\* ConversationAnalyzer.__init__: the analyzer's fields
farewell_phrases == <<
    "goodbye", "bye", "thank you for your help", "that's all",
    "have a good day", "thanks for your assistance", "thanks for your help",
    "thank you for the information", "i appreciate your help",
    "that answers my question", "that's what i needed to know",
    "i have no more questions", "that's it for now", "until next time",
    "have a nice day", "take care", "farewell", "see you later",
    "thanks again", "this has been helpful", "this was helpful",
    "conversation has reached its conclusion", "reached its logical conclusion",
    "conversation has ended", "end of this conversation",
    "ready for your next instruction", "ready for the next query",
    "standing by", "standing by to assist", "wait for genuine human input",
    "wait for your next question", "ready to move on",
    "this exchange is complete", "this interaction has concluded",
    "unusual situation", "unusual exchange", "unusual interaction",
    "unusual circumstance", "reached an impasse", "conversation loop",
    "break this pattern", "break this loop",
    "thank you", "thanks", "appreciate", "grateful" >>

\* number of entries of a list of phrases that occur in s
CountIn(phrases, s) ==
    Cardinality({ i \in 1..Len(phrases) : Contains(s, phrases[i]) })

GratitudeRe == {"thanks", "thank you", "appreciate", "grateful"}
ClosureRe == {"that's all", "that's it", "no more questions",
              "no other questions", "conclude", "conclusion", "end", "finish"}
FarewellWaitingRe ==
    Cat({"wait for", "ready for"}, {"your", "the next", "human", "genuine"})
UnusualRe ==
    Cat({"unusual", "strange", "peculiar"},
        {"situation", "exchange", "interaction", "circumstance"})

\* _detect_farewells, the body of the loop: what one message adds to the
\* score, in tenths
FarewellTenths(message) ==
    LET message_lower == lower(message)
    IN  5 * CountIn(farewell_phrases, message_lower)
        + (IF Search(GratitudeRe, message_lower) THEN 3 ELSE 0)
        + (IF Search(ClosureRe, message_lower) THEN 4 ELSE 0)
        + (IF Search(FarewellWaitingRe, message_lower) THEN 5 ELSE 0)
        + (IF Search(UnusualRe, message_lower) THEN 3 ELSE 0)

\* f restricted to S, as a table that is computed once
RECURSIVE TableOf(_, _)
TableOf(f, S) ==
    IF S = {} THEN << >>
    ELSE LET x == CHOOSE y \in S : TRUE
         IN  (x :> f[x]) @@ TableOf(f, S \ {x})

FarewellTable == TableOf([m \in AllMessages |-> FarewellTenths(m)], AllMessages)

RECURSIVE SumOver(_, _)
\* sum of table[turn's response] over the turns of a list
SumOver(table, turns) ==
    IF turns = <<>> THEN 0
    ELSE table[Head(turns)[3]] + SumOver(table, Tail(turns))

\* mutant: the score is returned without the cap at 1.0
detect_farewells_uncapped(recent_messages) ==
    Q(SumOver(FarewellTable, recent_messages), 10)

detect_farewells(recent_messages) ==
    QMin(Q(SumOver(FarewellTable, recent_messages), 10), One)

\* _normalize_text
normalize_text(text) == RemovePunctuation(lower(text))

\* get_ngrams, as the set the caller makes of it
get_ngrams(text, n) ==
    LET words == split(text)
    IN  { join(SubSeq(words, i, i + n - 1)) : i \in 1..(Len(words) - n + 1) }

jaccard(set1, set2) ==
    IF set1 = {} \/ set2 = {} THEN Zero
    ELSE Q(Cardinality(set1 \cap set2), Cardinality(set1 \cup set2))

\* _calculate_text_similarity
calculate_text_similarity(text1, text2) ==
    LET bigram_sim == jaccard(get_ngrams(text1, 2), get_ngrams(text2, 2))
        trigram_sim == jaccard(get_ngrams(text1, 3), get_ngrams(text2, 3))
    IN  QAdd(QMul(bigram_sim, Q(4, 10)), QMul(trigram_sim, Q(6, 10)))

NormalizeTable == TableOf([m \in AllMessages |-> normalize_text(m)], AllMessages)
NormalizedTexts == { NormalizeTable[m] : m \in AllMessages }
SimilarityTable ==
    TableOf([t1 \in NormalizedTexts |->
                TableOf([t2 \in NormalizedTexts |->
                            calculate_text_similarity(t1, t2)],
                        NormalizedTexts)],
            NormalizedTexts)

\* conversation_history[-k:]
LastN(seq, k) ==
    IF Len(seq) <= k THEN seq ELSE SubSeq(seq, Len(seq) - k + 1, Len(seq))

RepetitionScale == Q(333, 100)

\* _detect_repetition, lines 143-144: the last 4 responses, normalised
LastMessages(conversation_history) ==
    LET last4 == LastN(conversation_history, 4)
    IN  [i \in 1..Len(last4) |-> NormalizeTable[last4[i][3]]]

\* _detect_repetition, lines 150-164: the score from the average similarity
\* of all pairs of the last messages
SimilarityScore(last_messages) ==
    LET pairs == { p \in (1..Len(last_messages)) \X (1..Len(last_messages)) :
                      p[1] < p[2] }
        total == QSum([k \in 1..Len(last_messages) |->
                    QSum([l \in 1..Len(last_messages) |->
                        IF k < l
                        THEN SimilarityTable[last_messages[k]][last_messages[l]]
                        ELSE Zero])])
        avg_similarity == QMul(total, Q(1, Cardinality(pairs)))
    IN  IF pairs # {} /\ QLt(Q(7, 10), avg_similarity)
        THEN QMul(QSub(avg_similarity, Q(7, 10)), RepetitionScale)
        ELSE Zero

\* mutant: the test for exact repetition is left out
detect_repetition_similarity_only(conversation_history) ==
    IF Len(conversation_history) < 4 THEN Zero
    ELSE SimilarityScore(LastMessages(conversation_history))

\* _detect_repetition with 'len(conversation_history) < 2' at line 140
detect_repetition_from_two_turns(conversation_history) ==
    IF Len(conversation_history) < 2 THEN Zero
    ELSE LET last_messages == LastMessages(conversation_history)
         IN  IF Cardinality({ last_messages[i] : i \in 1..Len(last_messages) })
                   < Len(last_messages)
             THEN One
             ELSE SimilarityScore(last_messages)

\* _detect_repetition
detect_repetition(conversation_history) ==
    IF Len(conversation_history) < 4 THEN Zero
    ELSE LET last_messages == LastMessages(conversation_history)
         IN  IF Cardinality({ last_messages[i] : i \in 1..Len(last_messages) })
                   < Len(last_messages)
             THEN One
             ELSE SimilarityScore(last_messages)

resolution_phrases == <<
    "hope that helps", "hope this helps", "hope that answered",
    "hope this answered", "that should address", "that covers",
    "as requested", "as you asked", "as mentioned" >>
SummaryRe == {"in summary", "to summarize", "in conclusion", "to recap"}

\* _detect_resolution without the test of line 185 for a question mark
ResolutionOf_without_question_test(last_message) ==
    LET last_message_lower == lower(last_message)
    IN  QMin(Q(3 * CountIn(resolution_phrases, last_message_lower)
               + (IF Search(SummaryRe, last_message_lower) THEN 4 ELSE 0)
               + (IF Len(split(last_message)) < 20 THEN 2 ELSE 0), 10),
             One)

\* _detect_resolution on the last message, in tenths before the cap
ResolutionOf(last_message) ==
    LET last_message_lower == lower(last_message)
    IN  IF Contains(last_message, "?") THEN Zero
        ELSE QMin(Q(3 * CountIn(resolution_phrases, last_message_lower)
                    + (IF Search(SummaryRe, last_message_lower) THEN 4 ELSE 0)
                    + (IF Len(split(last_message)) < 20 THEN 2 ELSE 0), 10),
                  One)

ResolutionTable == TableOf([m \in AllMessages |-> ResolutionOf(m)], AllMessages)

\* _detect_resolution; recent_messages[-1] of an empty list raises IndexError,
\* which detect_end_signals tests for before calling this
detect_resolution(recent_messages) ==
    ResolutionTable[recent_messages[Len(recent_messages)][3]]

meta_keywords == <<
    "conversation", "exchange", "interaction", "discussion",
    "conclude", "conclusion", "end", "finished", "complete",
    "impasse", "loop", "pattern", "test", "scenario" >>
ConversationStateRe ==
    { a \o " conversation " \o b : a \in {"this", "the"},
                                  b \in {"has", "is", "seems", "appears"} }
BothAIRe == Cat({"both", "two", "we are"}, {"ai", "assistant", "claude"})

\* _detect_meta_conversation, the body of the loop, in tenths
MetaTenths(message) ==
    LET message_lower == lower(message)
        keyword_count == CountIn(meta_keywords, message_lower)
    IN  (IF keyword_count >= 2 THEN 4 ELSE 0)
        + (IF Search(ConversationStateRe, message_lower) THEN 5 ELSE 0)
        + (IF Search(BothAIRe, message_lower) THEN 6 ELSE 0)

MetaTable == TableOf([m \in AllMessages |-> MetaTenths(m)], AllMessages)

detect_meta_conversation(messages) ==
    QMin(Q(SumOver(MetaTable, messages), 10), One)

WaitingRe ==
    Cat({"wait for", "ready for", "standing by for"},
        {"your", "the next", "human", "genuine", "new"})
ExternalInputRe ==
    { a \o " " \o b \o " " \o c :
        a \in {"need", "require", "wait for"},
        b \in {"human", "user", "new", "next"},
        c \in {"input", "query", "question", "instruction"} }

\* _detect_waiting_pattern, the body of the loop
WaitingIndicators(message) ==
    LET message_lower == lower(message)
    IN  (IF Search(WaitingRe, message_lower) THEN 1 ELSE 0)
        + (IF Search(ExternalInputRe, message_lower) THEN 1 ELSE 0)

WaitingTable == TableOf([m \in AllMessages |-> WaitingIndicators(m)], AllMessages)

detect_waiting_pattern(messages) ==
    LET waiting_indicators == SumOver(WaitingTable, messages)
    IN  IF waiting_indicators >= 2 THEN Q(8, 10)
        ELSE IF waiting_indicators = 1 THEN Q(4, 10)
             ELSE Zero

ReasonNames == << "Farewell detected", "Repetitive conversation",
                  "Topic resolved", "Meta-conversation about ending",
                  "Both participants waiting for input" >>

ReasonThreshold == Q(3, 10)

\* the last of the largest, in dict order
PrimaryIndex_last_of_largest(scores) ==
    CHOOSE i \in 1..5 :
        /\ \A j \in 1..5 : QLe(scores[j], scores[i])
        /\ \A j \in (i + 1)..5 : QLt(scores[j], scores[i])

\* max(scores.items(), key=...): the first of the largest, in dict order
PrimaryIndex(scores) ==
    CHOOSE i \in 1..5 :
        /\ \A j \in 1..5 : QLe(scores[j], scores[i])
        /\ \A j \in 1..(i - 1) : QLt(scores[j], scores[i])

\* mutant: a highest score of exactly 0.3 counts as significant
determine_primary_reason_inclusive(scores) ==
    IF QLe(ReasonThreshold, scores[PrimaryIndex(scores)])
    THEN ReasonNames[PrimaryIndex(scores)]
    ELSE "Multiple factors"

\* _determine_primary_reason; scores in the order of the dict
determine_primary_reason(scores) ==
    IF QLt(ReasonThreshold, scores[PrimaryIndex(scores)])
    THEN ReasonNames[PrimaryIndex(scores)]
    ELSE "Multiple factors"

Weights == << Q(3, 10), Q(2, 10), Q(2, 10), Q(2, 10), Q(1, 10) >>

\* the five scores of detect_end_signals, in the order of the weights
SignalScores(conversation_history) ==
    LET recent_messages == LastN(conversation_history, 2)
        extended_context == LastN(conversation_history, 4)
    IN  << detect_farewells(recent_messages),
           detect_repetition(conversation_history),
           detect_resolution(recent_messages),
           detect_meta_conversation(extended_context),
           detect_waiting_pattern(extended_context) >>

CombinedScore(scores) ==
    QSum([i \in 1..5 |-> QMul(scores[i], Weights[i])])

Return(should_end, confidence, reason) ==
    [raised |-> FALSE, should_end |-> should_end, confidence |-> confidence,
     reason |-> reason]
Raise(exception) == [raised |-> TRUE, exception |-> exception]

\* mutant: the confidence has to exceed the threshold
ShouldEndStrict(combined_score, threshold) == QLt(threshold, combined_score)

\* line 86
ShouldEnd(combined_score, threshold) == QLe(threshold, combined_score)

\* mutant: the guard lets turn 1 through
TooEarlyOffByOne(current_turn) == current_turn < 1

\* line 57
TooEarly(current_turn) == current_turn < 2

\* detect_end_signals of an analyzer whose end_threshold is threshold
detect_end_signals(threshold, conversation_history, current_turn) ==
    IF TooEarly(current_turn)
    THEN Return(FALSE, Zero, "Too early in conversation")
    ELSE IF conversation_history = <<>> THEN Raise("IndexError")
    ELSE LET scores == SignalScores(conversation_history)
             combined_score == CombinedScore(scores)
         IN  Return(ShouldEnd(combined_score, threshold), combined_score,
                    determine_primary_reason(scores))


(***************************************************************************)
(* Chatbot                                                                 *)
(***************************************************************************)
Bots == {"A", "B"}
sys_msg == [b \in Bots |-> "You are " \o b]
\* max_turns is None, or <<n>> for the number n
None == <<>>
\* no call of detect_end_signals has returned yet
NoResult == [raised |-> FALSE, called |-> FALSE]

\* a provider reply whose text comes wrapped in a JSON document
JsonPrefix == "{\"content\": [{\"text\": \""
JsonSuffix == "\"}]}"
Wrap(text) == JsonPrefix \o text \o JsonSuffix

\* chat, lines 103-113: a reply that starts with '{' and parses as a JSON
\* object whose content[0] has a text yields that text; any other reply is
\* kept as it is
ExtractText(response_msg) ==
    IF /\ StartsWith(response_msg, "{")
       /\ StartsWith(response_msg, JsonPrefix)
       /\ Len(response_msg) >= Len(JsonPrefix) + Len(JsonSuffix)
       /\ SubSeq(response_msg, Len(response_msg) - Len(JsonSuffix) + 1,
                 Len(response_msg)) = JsonSuffix
    THEN SubSeq(response_msg, Len(JsonPrefix) + 1,
                Len(response_msg) - Len(JsonSuffix))
    ELSE response_msg

\* what provider.generate_response can do: return a text, or raise
Outcomes ==
    [kind : {"text"}, text : Responses \cup { Wrap(Neutral) }]
      \cup [kind : {"raise"}, text : ProviderErrors]

\* _add_to_memory
add_to_memory(memory, role, content) ==
    Append(memory, [role |-> role, content |-> content])

\* _construct_messages
construct_messages(bot, memory, msg, use_memory) ==
    << [role |-> "system", content |-> sys_msg[bot]] >>
      \o (IF use_memory THEN memory
          ELSE << [role |-> "user", content |-> msg] >>)

\* mutant: chat without its except clause; the provider's exception leaves it
chat_uncaught(bot, memory, msg, outcome) ==
    LET memory1 == add_to_memory(memory, "user", msg)
        messages == construct_messages(bot, memory1, msg, TRUE)
        response_msg == ExtractText(outcome.text)
    IN  [raised |-> outcome.kind = "raise",
         memory |-> IF outcome.kind = "raise" THEN memory1
                    ELSE add_to_memory(memory1, "assistant", response_msg),
         messages |-> messages, response |-> response_msg]

\* chat: the try block up to the provider call, then either the normal
\* return or the except clause
chat(bot, memory, msg, outcome) ==
    LET memory1 == add_to_memory(memory, "user", msg)
        messages == construct_messages(bot, memory1, msg, TRUE)
    IN  IF outcome.kind = "raise"
        THEN [raised |-> FALSE, memory |-> memory1, messages |-> messages,
              response |-> ErrorString(outcome.text)]
        ELSE LET response_msg == ExtractText(outcome.text)
             IN  [raised |-> FALSE,
                  memory |-> add_to_memory(memory1, "assistant", response_msg),
                  messages |-> messages, response |-> response_msg]

\* a budget that is max_turns whenever it is given, auto_end or not
ActualMaxTurns_ignoring_auto_end(auto, maxt, numt) ==
    IF maxt # None THEN maxt[1] ELSE numt

\* interact, lines 426-434
ActualMaxTurns(auto, maxt, numt) ==
    IF auto THEN (IF maxt # None THEN maxt[1] ELSE numt) ELSE numt

(***************************************************************************)
(* PersonaHubDB (socialsim/persona_db.py)                                  *)
(***************************************************************************)
\* the rows each streamed dataset holds, the largest max_personas and the
\* largest n of sample(n) in the model
DatasetSize == 3
MaxPersonas == 4
MaxSample == 3

Min(a, b) == IF a <= b THEN a ELSE b

\* row number row of the stream of a dataset
Item(source_type, row) == [source |-> source_type, row |-> row]
\* the rows on which _convert_to_persona raises and returns None
Unconvertible == { Item("standard", 2) }

\* sample has not been called yet
NoSample == [raised |-> FALSE, called |-> FALSE]

\* __init__, lines 40-56
PersonaHubDBInit(use_elite, use_standard, max) ==
    [personas |-> <<>>,
     max_personas |-> max,
     datasets |-> (IF use_elite THEN << "elite" >> ELSE <<>>)
                    \o (IF use_standard THEN << "standard" >> ELSE <<>>)]

\* _convert_to_persona, lines 118-143
convert_to_persona(item, source_type, index) ==
    IF item \in Unconvertible
    THEN [converted |-> FALSE]
    ELSE [converted |-> TRUE,
          id |-> source_type \o "_" \o ToString(index),
          source |-> "personahub_" \o source_type,
          item |-> item]

\* the loop of lines 89-99 without the test of lines 90-91
RECURSIVE LoadFrom_without_cap_test(_, _, _, _, _, _)
LoadFrom_without_cap_test(loaded, max, source_type, per_dataset, row, count) ==
    IF row > Min(per_dataset, DatasetSize) THEN loaded
    ELSE LET persona == convert_to_persona(Item(source_type, row), source_type,
                                           Len(loaded))
             loaded1 == IF persona.converted THEN Append(loaded, persona)
                        ELSE loaded
             count1 == IF persona.converted THEN count + 1 ELSE count
         IN  IF count1 >= per_dataset THEN loaded1
             ELSE LoadFrom_without_cap_test(loaded1, max, source_type,
                                            per_dataset, row + 1, count1)

\* lines 89-99: the rows of dataset["train"].take(per_dataset) from row on;
\* take starts at the first row of the stream at every call
RECURSIVE LoadFrom(_, _, _, _, _, _)
LoadFrom(loaded, max, source_type, per_dataset, row, count) ==
    IF row > Min(per_dataset, DatasetSize) THEN loaded
    ELSE IF Len(loaded) >= max THEN loaded
    ELSE LET persona == convert_to_persona(Item(source_type, row), source_type,
                                           Len(loaded))
             loaded1 == IF persona.converted THEN Append(loaded, persona)
                        ELSE loaded
             count1 == IF persona.converted THEN count + 1 ELSE count
         IN  IF count1 >= per_dataset THEN loaded1
             ELSE LoadFrom(loaded1, max, source_type, per_dataset, row + 1,
                           count1)

\* lines 86-99: the loop over self.datasets
RECURSIVE LoadDatasets(_, _, _, _)
LoadDatasets(loaded, max, sources, per_dataset) ==
    IF sources = <<>> THEN loaded
    ELSE LoadDatasets(LoadFrom(loaded, max, Head(sources), per_dataset, 1, 0),
                      max, Tail(sources), per_dataset)

\* _load_personas, lines 66-101; len(self.datasets) = 0 at line 84 raises
\* ZeroDivisionError
load_personas(loaded, max, sources, n) ==
    IF Len(loaded) >= n THEN [raised |-> FALSE, personas |-> loaded]
    ELSE LET needed == Min(n - Len(loaded), max - Len(loaded))
         IN  IF needed <= 0 THEN [raised |-> FALSE, personas |-> loaded]
             ELSE IF Len(sources) = 0 THEN [raised |-> TRUE]
             ELSE [raised |-> FALSE,
                   personas |-> LoadDatasets(loaded, max, sources,
                                             needed \div Len(sources) + 1)]

\* sample without filter or strata, lines 280-309: how many personas
\* random.sample picks
SampleSize(n, available) == IF available < n THEN available ELSE n

VARIABLES
    end_threshold,         \* the threshold of the analyzer under analysis
    history_in,            \* the transcript handed to detect_end_signals
    turn_in,               \* the current_turn handed to detect_end_signals
    result,                \* what detect_end_signals returned, or NoResult
    pc,                    \* position of interact
    num_turns, max_turns, auto_end,   \* arguments of interact
    actual_max_turns,
    conversation_history,
    turn,                  \* the loop variable of interact
    response,              \* the latest response
    memory,                \* memory[b]: the memory of bot b
    fed,                   \* the messages handed to the provider last
    provider_calls,        \* calls of provider.generate_response so far
    provider_failures,     \* how many of them raised
    last_check,            \* the analyzer's latest answer inside interact
    call_log,              \* the calls made on one analyzer, oldest first
    personas,              \* PersonaHubDB.personas
    max_personas,          \* PersonaHubDB.max_personas
    datasets,              \* the source types of PersonaHubDB.datasets
    sampled                \* what the latest PersonaHubDB.sample returned

vars == << end_threshold, history_in, turn_in, result, pc, num_turns,
           max_turns, auto_end, actual_max_turns, conversation_history,
           turn, response, memory, fed, provider_calls, provider_failures,
           last_check, call_log, personas, max_personas, datasets, sampled >>

analyzer_vars == << end_threshold, history_in, turn_in, result, call_log >>
persona_vars == << personas, max_personas, datasets, sampled >>
interact_vars == << pc, num_turns, max_turns, auto_end, actual_max_turns,
                    conversation_history, turn, response, memory, fed,
                    provider_calls, provider_failures, last_check >>

(***************************************************************************)
(* The analyzer on its own: detect_end_signals applied to every transcript *)
(* of at most MaxLen turns.                                                *)
(***************************************************************************)
RECURSIVE SeqsUpTo(_, _)
SeqsUpTo(S, n) ==
    IF n = 0 THEN { <<>> }
    ELSE LET shorter == SeqsUpTo(S, n - 1)
         IN  shorter \cup { Append(q, m) : q \in { r \in shorter : Len(r) = n - 1 },
                                          m \in S }

\* the transcript interact would have built from these responses
Transcript(responses) ==
    [i \in 1..Len(responses) |->
        << IF i % 2 = 1 THEN "A" ELSE "B",
           IF i = 1 THEN Start ELSE responses[i - 1],
           responses[i] >>]

Idle ==
    /\ pc = "idle"
    /\ num_turns = 0 /\ max_turns = None /\ auto_end = FALSE
    /\ actual_max_turns = 0
    /\ conversation_history = <<>>
    /\ turn = 0 /\ response = ""
    /\ memory = [b \in Bots |-> <<>>]
    /\ fed = <<>>
    /\ provider_calls = 0 /\ provider_failures = 0
    /\ last_check = NoResult

\* no PersonaHubDB takes part
NoPersonaHubDB ==
    /\ personas = <<>> /\ max_personas = 0 /\ datasets = <<>>
    /\ sampled = NoSample

InitAnalyzer ==
    /\ end_threshold \in { ConversationAnalyzerInit(t) : t \in Thresholds }
    /\ history_in \in { Transcript(r) : r \in SeqsUpTo(Messages, MaxLen) }
    /\ turn_in \in -1..MaxTurn
    /\ result = NoResult
    /\ call_log = <<>>
    /\ Idle
    /\ NoPersonaHubDB

Detect ==
    /\ result = NoResult
    /\ result' = detect_end_signals(end_threshold, history_in, turn_in)
    /\ UNCHANGED << end_threshold, history_in, turn_in, call_log >>
    /\ UNCHANGED interact_vars
    /\ UNCHANGED persona_vars

NextAnalyzer == Detect

SpecAnalyzer == InitAnalyzer /\ [][NextAnalyzer]_vars

(***************************************************************************)
(* interact                                                                *)
(***************************************************************************)
Init ==
    /\ end_threshold = ConversationAnalyzerInit(DefaultThreshold)
    /\ history_in = <<>> /\ turn_in = 0 /\ result = NoResult
    /\ call_log = <<>>
    /\ NoPersonaHubDB
    /\ pc = "start"
    /\ num_turns \in -1..MaxTurns
    /\ max_turns \in {None} \cup { <<n>> : n \in -1..MaxTurns }
    /\ auto_end \in BOOLEAN
    /\ actual_max_turns = 0
    /\ conversation_history = <<>>
    /\ turn = 0 /\ response = ""
    /\ memory = [b \in Bots |-> <<>>]
    /\ fed = <<>>
    /\ provider_calls = 0 /\ provider_failures = 0
    /\ last_check = NoResult

\* a chat that tries a failed generation a second time, which fails alike
Speak_retrying(b, msg, outcome, next_pc) ==
    LET r == chat(b, memory[b], msg, outcome)
        attempts == IF outcome.kind = "raise" THEN 2 ELSE 1
    IN  /\ provider_calls' = provider_calls + attempts
        /\ provider_failures' =
               provider_failures + (IF outcome.kind = "raise" THEN attempts ELSE 0)
        /\ conversation_history' =
               Append(conversation_history, << b, msg, r.response >>)
        /\ response' = r.response
        /\ memory' = [memory EXCEPT ![b] = r.memory]
        /\ fed' = r.messages
        /\ pc' = next_pc

\* a transcript that keeps the latest exchange only
Speak_keeping_latest(b, msg, outcome, next_pc) ==
    LET r == chat(b, memory[b], msg, outcome)
    IN  /\ provider_calls' = provider_calls + 1
        /\ provider_failures' =
               provider_failures + (IF outcome.kind = "raise" THEN 1 ELSE 0)
        /\ conversation_history' =
               Append(LastN(conversation_history, 1), << b, msg, r.response >>)
        /\ response' = r.response
        /\ memory' = [memory EXCEPT ![b] = r.memory]
        /\ fed' = r.messages
        /\ pc' = next_pc

\* one call of chat by bot b on msg and the append of its turn; an exception
\* that leaves chat leaves interact
Speak(b, msg, outcome, next_pc) ==
    LET r == chat(b, memory[b], msg, outcome)
    IN  /\ provider_calls' = provider_calls + 1
        /\ provider_failures' =
               provider_failures + (IF outcome.kind = "raise" THEN 1 ELSE 0)
        /\ IF r.raised
           THEN /\ pc' = "raised"
                /\ memory' = [memory EXCEPT ![b] = r.memory]
                /\ fed' = r.messages
                /\ UNCHANGED << conversation_history, response >>
           ELSE /\ conversation_history' =
                       Append(conversation_history, << b, msg, r.response >>)
                /\ response' = r.response
                /\ memory' = [memory EXCEPT ![b] = r.memory]
                /\ fed' = r.messages
                /\ pc' = next_pc

\* an interact that returns an empty transcript when its budget has no turn
FirstBotStarts_within_budget(outcome) ==
    /\ pc = "start"
    /\ actual_max_turns' = ActualMaxTurns(auto_end, max_turns, num_turns)
    /\ IF ActualMaxTurns(auto_end, max_turns, num_turns) < 1
       THEN /\ pc' = "done"
            /\ turn' = 0
            /\ UNCHANGED << conversation_history, response, memory, fed,
                            provider_calls, provider_failures >>
       ELSE /\ turn' = 1
            /\ Speak("A", Start, outcome, "loop")
    /\ UNCHANGED << num_turns, max_turns, auto_end, last_check >>
    /\ UNCHANGED analyzer_vars
    /\ UNCHANGED persona_vars

\* lines 424-463: set-up and the first bot's answer to the start message
FirstBotStarts(outcome) ==
    /\ pc = "start"
    /\ actual_max_turns' = ActualMaxTurns(auto_end, max_turns, num_turns)
    /\ turn' = 1
    /\ Speak("A", Start, outcome, "loop")
    /\ UNCHANGED << num_turns, max_turns, auto_end, last_check >>
    /\ UNCHANGED analyzer_vars
    /\ UNCHANGED persona_vars

\* line 466: range(1, actual_max_turns) is exhausted; lines 504-524 return
LoopExit ==
    /\ pc = "loop"
    /\ ~ (turn < actual_max_turns)
    /\ pc' = "done"
    /\ UNCHANGED << num_turns, max_turns, auto_end, actual_max_turns,
                    conversation_history, turn, response, memory, fed,
                    provider_calls, provider_failures, last_check >>
    /\ UNCHANGED analyzer_vars
    /\ UNCHANGED persona_vars

\* lines 468-469: the check at the head of an iteration
PreCheck ==
    IF auto_end /\ turn > 1
    THEN detect_end_signals(end_threshold, conversation_history, turn)
    ELSE NoResult

\* one call of detect_end_signals on interact's analyzer, as call_log keeps it
Consultation(history, current_turn) ==
    [end_threshold |-> end_threshold,
     history |-> history,
     current_turn |-> current_turn,
     result |-> detect_end_signals(end_threshold, history, current_turn)]

\* lines 468-469: the call the head of this iteration makes, if any
PreConsultation ==
    IF auto_end /\ turn > 1
    THEN << Consultation(conversation_history, turn) >>
    ELSE <<>>

\* lines 468-472: the check at the head of the iteration says stop
PreCheckBreak ==
    /\ pc = "loop"
    /\ turn < actual_max_turns
    /\ PreCheck # NoResult
    /\ IF PreCheck.raised THEN pc' = "raised"
       ELSE PreCheck.should_end /\ pc' = "done"
    /\ last_check' = PreCheck
    /\ call_log' = call_log \o PreConsultation
    /\ UNCHANGED << num_turns, max_turns, auto_end, actual_max_turns,
                    conversation_history, turn, response, memory, fed,
                    provider_calls, provider_failures >>
    /\ UNCHANGED << end_threshold, history_in, turn_in, result >>
    /\ UNCHANGED persona_vars

\* lines 466-490: no stop at the head of the iteration; the second bot
\* answers and the analyzer is asked again
SecondBotResponds(outcome) ==
    /\ pc = "loop"
    /\ turn < actual_max_turns
    /\ IF PreCheck = NoResult THEN TRUE
       ELSE ~ PreCheck.raised /\ ~ PreCheck.should_end
    /\ LET r == chat("B", memory["B"], response, outcome)
           history1 == Append(conversation_history, << "B", response, r.response >>)
           check == IF auto_end
                    THEN detect_end_signals(end_threshold, history1, turn)
                    ELSE NoResult
       IN  /\ Speak("B", response, outcome,
                    IF check = NoResult THEN "first_bot"
                    ELSE IF check.raised THEN "raised"
                    ELSE IF check.should_end THEN "done"
                    ELSE "first_bot")
           /\ last_check' = IF r.raised \/ check = NoResult THEN last_check
                            ELSE check
           /\ call_log' = call_log \o PreConsultation
                             \o (IF r.raised \/ check = NoResult THEN <<>>
                                 ELSE << Consultation(history1, turn) >>)
    /\ UNCHANGED << num_turns, max_turns, auto_end, actual_max_turns, turn >>
    /\ UNCHANGED << end_threshold, history_in, turn_in, result >>
    /\ UNCHANGED persona_vars

\* lines 493-501 without 'user_msg = response': the first bot answers the
\* message the second bot has just answered
FirstBotResponds_stale_message(outcome) ==
    /\ pc = "first_bot"
    /\ Speak("A", conversation_history[Len(conversation_history)][2], outcome,
             "loop")
    /\ turn' = turn + 1
    /\ UNCHANGED << num_turns, max_turns, auto_end, actual_max_turns,
                    last_check >>
    /\ UNCHANGED analyzer_vars
    /\ UNCHANGED persona_vars

\* lines 493-501: the first bot answers; the iteration ends
FirstBotResponds(outcome) ==
    /\ pc = "first_bot"
    /\ Speak("A", response, outcome, "loop")
    /\ turn' = turn + 1
    /\ UNCHANGED << num_turns, max_turns, auto_end, actual_max_turns,
                    last_check >>
    /\ UNCHANGED analyzer_vars
    /\ UNCHANGED persona_vars

Next ==
    \/ \E outcome \in Outcomes : FirstBotStarts(outcome)
    \/ LoopExit
    \/ PreCheckBreak
    \/ \E outcome \in Outcomes : SecondBotResponds(outcome)
    \/ \E outcome \in Outcomes : FirstBotResponds(outcome)

Spec == Init /\ [][Next]_vars

\* the loop of line 466 has an iteration left to run
AtLoopHead == pc = "loop" /\ turn < actual_max_turns

\* the step that starts an iteration: it stops on the analyzer's signal or
\* runs the second bot
StartIteration == PreCheckBreak \/ \E outcome \in Outcomes : SecondBotResponds(outcome)

\* interact is one sequential call: while every agent call returns, the next
\* statement of interact runs.  StartIteration is enabled exactly when
\* AtLoopHead holds, so the last conjunct is weak fairness of StartIteration,
\* written without ENABLED
SpecFair ==
    /\ Init /\ [][Next]_vars
    /\ WF_vars(\E outcome \in Outcomes : FirstBotStarts(outcome))
    /\ WF_vars(LoopExit)
    /\ WF_vars(\E outcome \in Outcomes : FirstBotResponds(outcome))
    /\ ([]<>(~ AtLoopHead) \/ []<><<StartIteration>>_vars)

(***************************************************************************)
(* RolePlay: the constructor runs interact once on its two bots, and every *)
(* call of simulate_interaction runs it again on the same bots             *)
(***************************************************************************)
MaxSessions == 2

\* the calls of interact on the two bots so far: bot A is given the start
\* message once in each, and no response of the model equals it
Sessions ==
    Cardinality({ i \in 1..Len(memory["A"]) :
                     memory["A"][i] = [role |-> "user", content |-> Start] })

\* RolePlay.__init__: num_turns of the model is 1, and simulate_interaction
\* is called with its defaults
InitRolePlay ==
    /\ Init
    /\ num_turns = 1 /\ auto_end = FALSE /\ max_turns = None

\* the max_turns arguments of the later calls of simulate_interaction
LaterMaxTurns == { None, << 3 >> }

\* a simulate_interaction that gives its bots a new memory
InteractAgain_clearing_memory(auto, maxt) ==
    /\ pc = "done"
    /\ Sessions < MaxSessions
    /\ pc' = "start"
    /\ auto_end' = auto /\ max_turns' = maxt
    /\ conversation_history' = <<>>
    /\ memory' = [b \in Bots |-> <<>>]
    /\ turn' = 0 /\ response' = ""
    /\ provider_calls' = 0 /\ provider_failures' = 0
    /\ last_check' = NoResult
    /\ call_log' = <<>>
    /\ UNCHANGED << num_turns, actual_max_turns, fed >>
    /\ UNCHANGED << end_threshold, history_in, turn_in, result >>
    /\ UNCHANGED persona_vars

\* simulate_interaction(auto_end, max_turns) after an interaction: interact
\* is entered again on role1 and role2 with self.num_turns, and starts with
\* conversation_history = [] and, with auto_end, a new analyzer (chatbot.py,
\* lines 424-434); the counters of the model count within one call
InteractAgain(auto, maxt) ==
    /\ pc = "done"
    /\ Sessions < MaxSessions
    /\ pc' = "start"
    /\ auto_end' = auto /\ max_turns' = maxt
    /\ conversation_history' = <<>>
    /\ turn' = 0 /\ response' = ""
    /\ provider_calls' = 0 /\ provider_failures' = 0
    /\ last_check' = NoResult
    /\ call_log' = <<>>
    /\ UNCHANGED << num_turns, actual_max_turns, memory, fed >>
    /\ UNCHANGED << end_threshold, history_in, turn_in, result >>
    /\ UNCHANGED persona_vars

NextRolePlay ==
    \/ Next
    \/ \E auto \in BOOLEAN, maxt \in LaterMaxTurns : InteractAgain(auto, maxt)

SpecRolePlay == InitRolePlay /\ [][NextRolePlay]_vars

(***************************************************************************)
(* Several calls of detect_end_signals on one analyzer                     *)
(***************************************************************************)
MaxCalls == 3

\* the end_threshold arguments the analyzers are constructed with
ThresholdArguments == Thresholds \cup { Q(3, 2), Q(-1, 2) }

CallMessages == { Neutral, Goodbye }
CallTranscripts == { Transcript(r) : r \in SeqsUpTo(CallMessages, 2) }
CallTurns == 1..2

\* an analyzer that keeps the confidence of its latest call as its threshold
end_threshold_after_tracking(threshold, r) ==
    IF r.raised THEN threshold ELSE r.confidence

\* self.end_threshold after a call that returned or raised r: neither
\* detect_end_signals nor a detector assigns an attribute of self
end_threshold_after(threshold, r) == threshold

InitCalls ==
    /\ end_threshold \in { ConversationAnalyzerInit(t) : t \in ThresholdArguments }
    /\ history_in = <<>> /\ turn_in = 0 /\ result = NoResult
    /\ call_log = <<>>
    /\ Idle
    /\ NoPersonaHubDB

Call(history, current_turn) ==
    /\ pc = "idle"
    /\ Len(call_log) < MaxCalls
    /\ LET r == detect_end_signals(end_threshold, history, current_turn)
       IN  /\ result' = r
           /\ end_threshold' = end_threshold_after(end_threshold, r)
           /\ call_log' = Append(call_log,
                                 [end_threshold |-> end_threshold,
                                  history |-> history,
                                  current_turn |-> current_turn,
                                  result |-> r])
    /\ history_in' = history
    /\ turn_in' = current_turn
    /\ UNCHANGED interact_vars
    /\ UNCHANGED persona_vars

NextCalls == \E history \in CallTranscripts, current_turn \in CallTurns :
                Call(history, current_turn)

SpecCalls == InitCalls /\ [][NextCalls]_vars

(***************************************************************************)
(* PersonaHubDB: construction and calls of sample                          *)
(***************************************************************************)
InitPersonas ==
    /\ \E use_elite \in BOOLEAN, use_standard \in BOOLEAN, max \in 0..MaxPersonas :
          LET db == PersonaHubDBInit(use_elite, use_standard, max)
          IN  /\ personas = db.personas
              /\ max_personas = db.max_personas
              /\ datasets = db.datasets
    /\ sampled = NoSample
    /\ end_threshold = ConversationAnalyzerInit(DefaultThreshold)
    /\ history_in = <<>> /\ turn_in = 0 /\ result = NoResult
    /\ call_log = <<>>
    /\ Idle

\* sample(n), lines 267-309, without filter_by and stratify_by
Sample(n) ==
    /\ pc = "idle"
    /\ LET loaded == load_personas(personas, max_personas, datasets, n * 2)
       IN  IF loaded.raised
           THEN /\ sampled' = [raised |-> TRUE, called |-> TRUE]
                /\ UNCHANGED personas
           ELSE /\ personas' = loaded.personas
                /\ \E chosen \in SUBSET (1..Len(loaded.personas)) :
                      /\ Cardinality(chosen) = SampleSize(n, Len(loaded.personas))
                      /\ sampled' = [raised |-> FALSE, called |-> TRUE,
                                     chosen |-> chosen]
    /\ UNCHANGED << max_personas, datasets >>
    /\ UNCHANGED analyzer_vars
    /\ UNCHANGED interact_vars

NextPersonas == \E n \in 0..MaxSample : Sample(n)

SpecPersonas == InitPersonas /\ [][NextPersonas]_vars


(***************************************************************************)
(* Properties of detect_end_signals (SpecAnalyzer)                         *)
(***************************************************************************)
Returned == result # NoResult /\ ~ result.raised
Evaluated == Returned /\ turn_in >= 2

InUnit(x) == QLe(Zero, x) /\ QLe(x, One)

\* the responses of the last k turns of a transcript
LastResponses(history, k) ==
    LET last == LastN(history, k) IN [i \in 1..Len(last) |-> last[i][3]]

MaxScore(scores) ==
    CHOOSE x \in { scores[i] : i \in 1..5 } : \A j \in 1..5 : QLe(scores[j], x)

\* C1: whatever the transcript (empty included), a call with current_turn < 2
\* returns should_end = FALSE and confidence = 0.0 and does not raise, as no
\* detector is evaluated.
C1_WarmUpGuard ==
    (result # NoResult /\ turn_in < 2)
        => /\ ~ result.raised
           /\ result.should_end = FALSE
           /\ result.confidence = Zero

\* a transcript on which the detectors would say stop at turn 2 was answered
\* at turn 1
C1_Witness ==
    /\ Returned /\ turn_in = 1 /\ Len(history_in) = MaxLen
    /\ detect_end_signals(end_threshold, history_in, 2).should_end

\* C2: the confidence returned lies in [0,1]; when the detectors ran, each of
\* the five scores lies in [0,1] and the confidence is their sum weighted by
\* 0.3, 0.2, 0.2, 0.2, 0.1.
C2_ConfidenceInUnit ==
    Returned =>
        /\ InUnit(result.confidence)
        /\ turn_in >= 2 =>
              LET scores == SignalScores(history_in)
              IN  /\ \A i \in 1..5 : InUnit(scores[i])
                  /\ result.confidence =
                       QSum(<< QMul(scores[1], Q(3, 10)), QMul(scores[2], Q(2, 10)),
                               QMul(scores[3], Q(2, 10)), QMul(scores[4], Q(2, 10)),
                               QMul(scores[5], Q(1, 10)) >>)

\* the increments of the farewell and of the meta-conversation detector both
\* went past 1.0 on a transcript whose repetition score is 1.0
C2_Witness ==
    /\ Evaluated
    /\ SumOver(FarewellTable, LastN(history_in, 2)) > 10
    /\ SumOver(MetaTable, LastN(history_in, 4)) > 10
    /\ detect_repetition(history_in) = One

C4_PrimaryReason ==
    Evaluated =>
        LET scores == SignalScores(history_in)
        IN  IF QLt(Q(3, 10), MaxScore(scores))
            THEN \E i \in 1..5 : /\ scores[i] = MaxScore(scores)
                                 /\ result.reason = ReasonNames[i]
            ELSE result.reason = "Multiple factors"

\* the highest score is exactly 0.3
C4_Witness ==
    /\ Evaluated
    /\ MaxScore(SignalScores(history_in)) = Q(3, 10)
    /\ result.reason = "Multiple factors"

\* C9 (as claimed): when the last two responses each contain "thank you so
\* much, goodbye!", the farewell score is 1.0 and an analyzer with the default
\* threshold answers should_end = TRUE with reason "Farewell detected".
C9_FarewellEnds ==
    ( /\ Evaluated /\ end_threshold = DefaultThreshold
      /\ Len(history_in) >= 2
      /\ \A i \in 1..2 :
            Contains(lower(LastResponses(history_in, 2)[i]),
                     "thank you so much, goodbye!") )
        => /\ detect_farewells(LastN(history_in, 2)) = One
           /\ result.should_end
           /\ result.reason = "Farewell detected"

\* C10: when the last 4 responses of a transcript are the same text, the
\* repetition score is 1.0 and the confidence is 0.2 plus the weighted scores
\* of the other four detectors.
C10_IdenticalRepetition ==
    ( /\ Evaluated /\ Len(history_in) >= 4
      /\ Cardinality({ LastResponses(history_in, 4)[i] : i \in 1..4 }) = 1 )
        => LET scores == SignalScores(history_in)
           IN  /\ scores[2] = One
               /\ result.confidence =
                    QAdd(Q(2, 10),
                         QSum(<< QMul(scores[1], Q(3, 10)), QMul(scores[3], Q(2, 10)),
                                 QMul(scores[4], Q(2, 10)), QMul(scores[5], Q(1, 10)) >>))

\* four identical responses of at least three words were analysed
C10_Witness ==
    /\ Evaluated /\ Len(history_in) = 4
    /\ Cardinality({ LastResponses(history_in, 4)[i] : i \in 1..4 }) = 1
    /\ Len(split(history_in[4][3])) >= 3

(***************************************************************************)
(* Properties of interact (Spec)                                           *)
(***************************************************************************)
ErrorStrings == { ErrorString(e) : e \in ProviderErrors }

\* the turns the loop appends when nothing stops it early
FullLength(cap) == IF cap >= 1 THEN 2 * cap - 1 ELSE 1

\* C5 (as claimed): with auto_end = FALSE, interact with num_turns = n >= 1
\* returns a transcript of exactly n turns.
C5_ExactlyRequestedTurns ==
    (pc = "done" /\ ~ auto_end /\ num_turns >= 1)
        => Len(conversation_history) = num_turns

\* C6 (as claimed, for the calls whose cap is at least one turn): the
\* transcript never holds more turns than actual_max_turns, which is max_turns
\* (num_turns when max_turns is None) with auto_end and num_turns without.
C6_HardTurnCap ==
    (pc # "start" /\ ActualMaxTurns(auto_end, max_turns, num_turns) >= 1)
        => Len(conversation_history)
             <= ActualMaxTurns(auto_end, max_turns, num_turns)

\* C7: a generation that raises never makes interact raise; each failure is
\* recorded as the error-string response of its turn, and the loop goes on:
\* without auto_end the transcript returned has the length it has when no
\* generation fails.
C7_FailureDoesNotAbort ==
    /\ pc # "raised"
    /\ Cardinality({ i \in 1..Len(conversation_history) :
                        conversation_history[i][3] \in ErrorStrings })
         = provider_failures
    /\ (pc = "done" /\ ~ auto_end)
          => Len(conversation_history) = FullLength(actual_max_turns)

\* the first generation failed, its error string was the second bot's input,
\* and interact returned the full transcript
C7_Witness ==
    /\ pc = "done" /\ ~ auto_end /\ actual_max_turns = MaxTurns
    /\ conversation_history[1][3] \in ErrorStrings
    /\ conversation_history[2][2] \in ErrorStrings
    /\ Len(conversation_history) = FullLength(MaxTurns)

\* C8 (as claimed): with auto_end = TRUE and agents that give the same
\* response at every turn, so that the last four responses are duplicates,
\* interact stops on the analyzer's signal and returns fewer than max_turns
\* turns.
C8_RepetitionHalts ==
    ( /\ pc = "done" /\ auto_end /\ Len(conversation_history) >= 4
      /\ Cardinality({ conversation_history[i][3] :
                          i \in 1..Len(conversation_history) }) = 1 )
        => /\ last_check.should_end
           /\ Len(conversation_history) < actual_max_turns

(***************************************************************************)
(* Further properties of detect_end_signals (SpecAnalyzer)                 *)
(***************************************************************************)
\* C11: when the final response of the transcript contains "?", the
\* resolution score is exactly 0, whatever the phrases, summary words or
\* brevity of that message would earn, and the confidence is the weighted sum
\* of the other four scores; the score is that of the final message alone, so
\* a "?" in an earlier turn has no effect.
C11_QuestionMarkOverride ==
    (Evaluated /\ history_in # <<>>)
        => LET scores == SignalScores(history_in)
               final == history_in[Len(history_in)]
           IN  /\ Contains(final[3], "?")
                     => /\ scores[3] = Zero
                        /\ result.confidence
                             = QSum([i \in 1..4 |->
                                       QMul(Weights[IF i < 3 THEN i ELSE i + 1],
                                            scores[IF i < 3 THEN i ELSE i + 1])])
               /\ scores[3] = SignalScores(<< final >>)[3]

\* the final response asks a question and is short enough to earn the brevity
\* bonus, and the turn before it asks none
C11_Witness ==
    /\ Evaluated /\ Len(history_in) >= 2
    /\ Contains(history_in[Len(history_in)][3], "?")
    /\ Len(split(history_in[Len(history_in)][3])) < 20
    /\ ~ Contains(history_in[Len(history_in) - 1][3], "?")
    /\ SignalScores(history_in)[3] = Zero

C13_NeverRaises ==
    result # NoResult
        => /\ ~ result.raised
           /\ (history_in = <<>> /\ turn_in >= 2) => ~ result.should_end

\* C14 (as claimed): on a non-empty transcript whose responses are all the
\* empty string, with current_turn >= 2, the five scores are 0 and the
\* confidence is 0.0.
C14_EmptyMessagesScoreZero ==
    ( /\ Evaluated /\ history_in # <<>>
      /\ \A i \in 1..Len(history_in) : history_in[i][3] = "" )
        => /\ \A k \in 1..5 : SignalScores(history_in)[k] = Zero
           /\ result.confidence = Zero

\* C15 (as claimed): no analyzer exists whose end_threshold lies outside
\* [0, 1], as the constructor rejects such an argument.
C15_ThresholdValidated ==
    InUnit(end_threshold)

\* C25: on a transcript of fewer than 4 turns the repetition score is exactly
\* 0, identical responses or not, and the confidence is the weighted sum of
\* the other four scores.
C25_NoRepetitionBelowFourTurns ==
    (result # NoResult /\ Len(history_in) < 4)
        => /\ detect_repetition(history_in) = Zero
           /\ Evaluated
                => LET scores == SignalScores(history_in)
                   IN  result.confidence
                         = QSum(<< QMul(Weights[1], scores[1]),
                                   QMul(Weights[3], scores[3]),
                                   QMul(Weights[4], scores[4]),
                                   QMul(Weights[5], scores[5]) >>)

\* three turns with the same response, not the empty one, were evaluated
C25_Witness ==
    /\ Evaluated /\ Len(history_in) = 3
    /\ history_in[1][3] # ""
    /\ history_in[1][3] = history_in[2][3]
    /\ history_in[2][3] = history_in[3][3]

\* the detectors whose score is above 0
Positive(scores) == { k \in 1..5 : QLt(Zero, scores[k]) }

\* C27: with the default threshold 0.6, should_end = TRUE only when three or
\* more of the five scores are above 0, as no two weights add up to 0.6 and
\* no score is above 1.
C27_ThreeDetectorsNeeded ==
    /\ \A i \in 1..5 : \A j \in 1..5 :
          i # j => QLt(QAdd(Weights[i], Weights[j]), DefaultThreshold)
    /\ (Evaluated /\ end_threshold = DefaultThreshold /\ result.should_end)
          => Cardinality(Positive(SignalScores(history_in))) >= 3

\* should_end = TRUE under the default threshold with exactly three scores
\* above 0
C27_Witness ==
    /\ Evaluated /\ end_threshold = DefaultThreshold /\ result.should_end
    /\ Cardinality(Positive(SignalScores(history_in))) = 3

\* the detectors that share the highest score
Largest(scores) == { k \in 1..5 : scores[k] = MaxScore(scores) }

\* C28: when two or more detectors share the highest score and that score is
\* above 0.3, the reason named is that of the first of them in the order
\* farewell, repetition, resolution, meta-conversation, waiting pattern.
C28_ReasonTieBreak ==
    Evaluated
        => LET scores == SignalScores(history_in)
               first == CHOOSE k \in Largest(scores) :
                           \A l \in Largest(scores) : k <= l
           IN  (Cardinality(Largest(scores)) >= 2
                  /\ QLt(ReasonThreshold, MaxScore(scores)))
                 => result.reason = ReasonNames[first]

\* farewell and repetition both score 1.0, and the reason is the farewell
C28_Witness ==
    /\ Evaluated
    /\ SignalScores(history_in)[1] = One
    /\ SignalScores(history_in)[2] = One
    /\ result.reason = "Farewell detected"

(***************************************************************************)
(* Further properties of interact (Spec)                                   *)
(***************************************************************************)
\* C16 (as claimed): a call of interact whose turn count is negative
\* (num_turns, or max_turns when auto_end is set and max_turns is given)
\* invokes no agent and returns no transcript.
C16_NegativeTurnsRejected ==
    ActualMaxTurns(auto_end, max_turns, num_turns) < 0
        => /\ provider_calls = 0
           /\ conversation_history = <<>>
           /\ pc # "done"

\* the analyzer's latest answer inside interact was to stop
Signalled == IF last_check = NoResult THEN FALSE ELSE last_check.should_end

\* C17: every call of interact returns; it returns either because the
\* analyzer said stop, which happens only with auto_end, or because the loop
\* has used up its budget; without auto_end the analyzer is never asked and
\* the loop runs the whole budget of num_turns.
C17_Terminates ==
    /\ <>(pc = "done")
    /\ [](pc = "done"
            => \/ auto_end /\ Signalled
               \/ ~ (turn < ActualMaxTurns(auto_end, max_turns, num_turns)))
    /\ [](~ auto_end
            => /\ last_check = NoResult
               /\ pc = "done"
                    => /\ ~ (turn < num_turns)
                       /\ Len(conversation_history) = FullLength(num_turns))

\* interact returned on the analyzer's signal with budget left
C17_Witness ==
    /\ pc = "done" /\ auto_end /\ Signalled
    /\ turn < actual_max_turns

\* what bot received and what the transcript records as its responses in the
\* first n turns, oldest first
RECURSIVE OwnExchanges(_, _, _)
OwnExchanges(history, bot, n) ==
    IF n = 0 THEN <<>>
    ELSE OwnExchanges(history, bot, n - 1)
           \o (IF history[n][1] = bot
               THEN << [role |-> "user", content |-> history[n][2]],
                       [role |-> "assistant", content |-> history[n][3]] >>
               ELSE <<>>)

\* C18 (as claimed): the messages fed to the agent that produced the latest
\* turn are its system instruction, then every message it received and every
\* response the transcript records for it in the earlier turns, error strings
\* included, oldest first, then the message it answered in that turn.
C18_PrivateMemory ==
    conversation_history # <<>>
        => LET n == Len(conversation_history)
               bot == conversation_history[n][1]
           IN  fed = << [role |-> "system", content |-> sys_msg[bot]] >>
                       \o OwnExchanges(conversation_history, bot, n - 1)
                       \o << [role |-> "user",
                              content |-> conversation_history[n][2]] >>

\* C19: whatever num_turns, max_turns and auto_end are, values of 1 or less
\* included, interact first has bot A answer the start message, once, and
\* appends that as turn 1; the transcript returned has at least one turn, and
\* interact never stops on the analyzer's signal while turn 1 is the only
\* turn.
C19_FirstExchange ==
    /\ pc = "start" => provider_calls = 0 /\ conversation_history = <<>>
    /\ pc # "start"
          => /\ Len(conversation_history) >= 1
             /\ conversation_history[1][1] = "A"
             /\ conversation_history[1][2] = Start
             /\ memory["A"][1] = [role |-> "user", content |-> Start]
             /\ Cardinality({ i \in 1..Len(conversation_history) :
                                 conversation_history[i][2] = Start }) = 1
             /\ Signalled => Len(conversation_history) > 1

\* a call with auto_end and a budget of no turn returned turn 1
C19_Witness ==
    /\ pc = "done" /\ auto_end
    /\ ActualMaxTurns(auto_end, max_turns, num_turns) < 1
    /\ Len(conversation_history) = 1
    /\ conversation_history[1][1] = "A"

\* s is an initial part of t
IsPrefix(s, t) == Len(s) <= Len(t) /\ SubSeq(t, 1, Len(s)) = s

\* C21 (as claimed): every call interact makes on the analyzer passes the
\* transcript built so far and a current_turn equal to the number of turns
\* in that transcript.
C21_CurrentTurnIsLength ==
    \A i \in 1..Len(call_log) :
        /\ IsPrefix(call_log[i].history, conversation_history)
        /\ call_log[i].current_turn = Len(call_log[i].history)

\* C22: turn i of the transcript is spoken by A when i is odd and by B when
\* i is even; the message of turn 1 is the start message and the message of
\* every later turn is the response of the turn before it, error strings
\* included.
C22_AlternationAndChaining ==
    \A i \in 1..Len(conversation_history) :
        /\ conversation_history[i][1] = (IF i % 2 = 1 THEN "A" ELSE "B")
        /\ conversation_history[i][2]
             = (IF i = 1 THEN Start ELSE conversation_history[i - 1][3])

\* the second bot's response was an error string and the first bot answered
\* it
C22_Witness ==
    /\ Len(conversation_history) >= 3
    /\ conversation_history[2][3] \in ErrorStrings
    /\ conversation_history[3][1] = "A"
    /\ conversation_history[3][2] = conversation_history[2][3]
    /\ conversation_history[3][3] \notin ErrorStrings

\* C23: the transcript only grows: at every step of interact the transcript
\* before the step is an initial part of the transcript after it, so no turn
\* is changed, removed or moved; and a step that consults the analyzer
\* leaves the transcript as it was passed to the latest call.
C23_AppendOnly ==
    [][ /\ IsPrefix(conversation_history, conversation_history')
        /\ call_log' # call_log
              => call_log'[Len(call_log')].history = conversation_history'
      ]_vars

\* interact returned three turns or more after consulting the analyzer more
\* than once
C23_Witness ==
    /\ pc = "done"
    /\ Len(conversation_history) >= 3
    /\ Len(call_log) >= 2

\* C24: every turn of the transcript comes from one call of the provider: the
\* calls made so far are as many as the turns, and the failed ones as many as
\* the turns whose response is an error string, so no failed generation was
\* tried again.
C24_OneShotPerTurn ==
    /\ provider_calls = Len(conversation_history)
    /\ provider_failures
         = Cardinality({ i \in 1..Len(conversation_history) :
                            conversation_history[i][3] \in ErrorStrings })

\* interact returned after two consecutive generations had failed
C24_Witness ==
    /\ pc = "done"
    /\ Len(conversation_history) >= 3
    /\ conversation_history[2][3] \in ErrorStrings
    /\ conversation_history[3][3] \in ErrorStrings
    /\ provider_calls = Len(conversation_history)

Entries(mem) == { mem[i] : i \in 1..Len(mem) }

C20_LazyWithinCap ==
    /\ personas = <<>>
    /\ [](Len(personas) <= max_personas)
    /\ [][ /\ Len(personas') >= Len(personas)
           /\ SubSeq(personas', 1, Len(personas)) = personas ]_vars

\* sample asked for more than the cap allows, with two datasets to draw from,
\* and the load stopped at the cap
C20_Witness ==
    /\ sampled.called /\ ~ sampled.raised
    /\ Len(datasets) = 2
    /\ max_personas = 2
    /\ Len(personas) = max_personas
    /\ Cardinality(sampled.chosen) = 2

\* C30 (as claimed): the personas loaded come from distinct rows of the
\* datasets: no row of a stream is loaded a second time, whatever calls of
\* sample were made.
C30_DistinctItems ==
    \A i \in 1..Len(personas) : \A j \in 1..Len(personas) :
        i # j => personas[i].item # personas[j].item

=============================================================================
